---- MODULE Spec2Model ----
(***************************************************************************)
(* A model of collector.py: the Resampler (format_interval, resample with  *)
(* agg_dict), and the Collector's collect_many / collect /                 *)
(* save_ticker_data / save loop with its temporary file and its uploads.   *)
(*                                                                         *)
(* Timestamps are minutes since midnight of the collected date.  Interval  *)
(* labels and file names are sequences of one-character strings, so that   *)
(* the regular expression and the replace of format_interval, and the      *)
(* strftime of save_ticker_data, are computed character by character.      *)
(* Prices and volumes are integers (exact arithmetic); NaN is a value of   *)
(* its own, below every price.                                             *)
(***************************************************************************)
EXTENDS Integers, Sequences, FiniteSets, TLC

\* ------------------------------------------------------------------ bounds
MaxBars == 3
NumTickers == 2
NumDates == 2
MaxLabelLen == 3

\* --------------------------------------------------------------- variables
VARIABLES
    pc,            \* position of the run inside collect_many/collect/save
    di,            \* index of the date collect_many is at
    ti,            \* index of the ticker collect is at
    ii,            \* index of the interval collect is at
    data,          \* collect's local variable data
    dataStage,     \* the interval whose series data currently holds
    fetched,       \* the series the provider returned for the ticker in hand
    stored,        \* the series handed to save for the ticker in hand, in order
    calls,         \* every resample call of the run: [from, to]
    fetches,       \* every fetch of the run: [ticker, date, uploads so far]
    uploads,       \* the destination paths of the completed uploads, in order
    temps,         \* the temporary files that exist: id -> state
    tempCount,     \* temporary files created so far
    error,         \* "none", or the stage that raised
    pure           \* the call of a pure function under study (ResampleSpec, FormatSpec)

vars == <<pc, di, ti, ii, data, dataStage, fetched, stored, calls, fetches,
          uploads, temps, tempCount, error, pure>>

collectVars == <<pc, di, ti, ii, data, dataStage, fetched, stored, calls,
                 fetches, uploads, temps, tempCount, error>>

\* ----------------------------------------------------------------- helpers
NaN == 0 - 1

Digits == <<"0", "1", "2", "3", "4", "5", "6", "7", "8", "9">>

IsDigit(c) == \E d \in 1..Len(Digits) : Digits[d] = c

DigitValue(c) == (CHOOSE d \in 1..Len(Digits) : Digits[d] = c) - 1

\* n written in decimal, zero-padded to width w (strftime's %Y, %m, %d)
RECURSIVE Pad(_, _)
Pad(n, w) == IF w = 0 THEN <<>> ELSE Append(Pad(n \div 10, w - 1), Digits[(n % 10) + 1])

\* the number a sequence of digit characters writes
RECURSIVE Number(_)
Number(s) ==
    IF s = <<>> THEN 0
    ELSE 10 * Number(SubSeq(s, 1, Len(s) - 1)) + DigitValue(s[Len(s)])

\* ------------------------------------------------------- YFinanceCollector
columns == {"datetime", "open", "high", "low", "close", "volume",
            "dividends", "stock_splits"}

\* the minutes of the day at which the provider may report a 1-minute bar:
\* two in one 5-minute bucket, the next bucket, a later hour after empty
\* 5-minute buckets, and an hour after an empty hour
Times == {570, 571, 575, 600, 725}

Profiles == {
    [open |-> 3, high |-> 5, low |-> 2, close |-> 4, volume |-> 1, dividends |-> 0, stock_splits |-> 0],
    [open |-> 4, high |-> 4, low |-> 1, close |-> 1, volume |-> 2, dividends |-> 1, stock_splits |-> 0],
    [open |-> 2, high |-> 6, low |-> 2, close |-> 6, volume |-> 0, dividends |-> 0, stock_splits |-> 2] }

MkBar(t, p) ==
    [datetime |-> t, open |-> p.open, high |-> p.high, low |-> p.low,
     close |-> p.close, volume |-> p.volume, dividends |-> p.dividends,
     stock_splits |-> p.stock_splits]

RECURSIVE Ascending(_)
Ascending(T) ==
    IF T = {} THEN <<>>
    ELSE LET m == CHOOSE x \in T : \A y \in T : x <= y
         IN  <<m>> \o Ascending(T \ {m})

\* every series the provider may return: ascending, unique datetimes
AllSeries ==
    UNION { { [i \in 1..Len(ts) |-> MkBar(ts[i], p[i])] :
                p \in [1..Len(ts) -> Profiles] } :
            ts \in { Ascending(T) : T \in { U \in SUBSET Times : Cardinality(U) <= MaxBars } } }

\* --------------------------------------------------------------- Resampler
\* the aggregation table with open and close exchanged
agg_dict_swapped ==
    [open |-> "last", high |-> "max", low |-> "min", close |-> "first",
     volume |-> "sum", dividends |-> "sum", stock_splits |-> "sum"]

agg_dict ==
    [open |-> "first", high |-> "max", low |-> "min", close |-> "last",
     volume |-> "sum", dividends |-> "sum", stock_splits |-> "sum"]

\* re.match('^\dM$', interval)
MatchesDigitM(interval) ==
    /\ Len(interval) = 2
    /\ IsDigit(interval[1])
    /\ interval[2] = "M"

\* interval.replace('M', 'T')
ReplaceMT(interval) ==
    [i \in 1..Len(interval) |-> IF interval[i] = "M" THEN "T" ELSE interval[i]]

format_interval(interval) ==
    IF MatchesDigitM(interval) THEN ReplaceMT(interval) ELSE interval

\* the offset alias of a frequency string: its last character
FreqUnit(freq) == freq[Len(freq)]

\* the multiple of a frequency string: its leading digits
FreqCount(freq) == Number(SubSeq(freq, 1, Len(freq) - 1))

\* the minutes of one unit of an offset alias: T minute, H hour, D day,
\* M calendar month (taken as the 31 days of the longest month)
UnitMinutes(u) ==
    CASE u = "T" -> 1
      [] u = "H" -> 60
      [] u = "D" -> 60 * 24
      [] u = "M" -> 60 * 24 * 31

FreqMinutes(freq) == FreqCount(freq) * UnitMinutes(FreqUnit(freq))

\* the start of the bin of width w (anchored at midnight) that holds t
BinStart(t, w) == t - (t % w)

RECURSIVE SumOf(_, _)
SumOf(rows, col) ==
    IF rows = <<>> THEN 0
    ELSE (IF Head(rows)[col] = NaN THEN 0 ELSE Head(rows)[col]) + SumOf(Tail(rows), col)

\* first that takes the first row's value, null or not
FirstRaw(rows, col) == IF rows = <<>> THEN NaN ELSE Head(rows)[col]

RECURSIVE FirstOf(_, _)
FirstOf(rows, col) ==
    IF rows = <<>> THEN NaN
    ELSE IF Head(rows)[col] # NaN THEN Head(rows)[col]
    ELSE FirstOf(Tail(rows), col)

RECURSIVE LastOf(_, _)
LastOf(rows, col) ==
    IF rows = <<>> THEN NaN
    ELSE IF rows[Len(rows)][col] # NaN THEN rows[Len(rows)][col]
    ELSE LastOf(SubSeq(rows, 1, Len(rows) - 1), col)

MaxOf(rows, col) ==
    LET vs == { rows[i][col] : i \in 1..Len(rows) } \ {NaN}
    IN  IF vs = {} THEN NaN ELSE CHOOSE v \in vs : \A x \in vs : x <= v

MinOf(rows, col) ==
    LET vs == { rows[i][col] : i \in 1..Len(rows) } \ {NaN}
    IN  IF vs = {} THEN NaN ELSE CHOOSE v \in vs : \A x \in vs : v <= x

\* one aggregation function of agg_dict over the rows of a bin
Aggregate(how, rows, col) ==
    CASE how = "first" -> FirstOf(rows, col)
      [] how = "last"  -> LastOf(rows, col)
      [] how = "max"   -> MaxOf(rows, col)
      [] how = "min"   -> MinOf(rows, col)
      [] how = "sum"   -> SumOf(rows, col)

\* .agg(cls.agg_dict) on the rows of the bin that starts at t
AggregateBin(t, rows) ==
    [c \in columns |->
        IF c = "datetime" THEN t ELSE Aggregate(agg_dict[c], rows, c)]

\* a resample whose range of bins stops one short of the last row's bin
ResampleBinsShort(df, freq) ==
    IF df = <<>> THEN <<>>
    ELSE LET w     == FreqMinutes(freq)
             first == BinStart(df[1].datetime, w)
             last  == BinStart(df[Len(df)].datetime, w)
             InBin(t) == LET In(b) == BinStart(b.datetime, w) = t
                         IN  SelectSeq(df, In)
         IN  [k \in 1..((last - first) \div w) |->
                 AggregateBin(first + (k - 1) * w, InBin(first + (k - 1) * w))]

\* df.resample(freq): one bin per period from the first row's to the last
\* row's, empty ones included
ResampleBins(df, freq) ==
    IF df = <<>> THEN <<>>
    ELSE LET w     == FreqMinutes(freq)
             first == BinStart(df[1].datetime, w)
             last  == BinStart(df[Len(df)].datetime, w)
             InBin(t) == LET In(b) == BinStart(b.datetime, w) = t
                         IN  SelectSeq(df, In)
         IN  [k \in 1..(((last - first) \div w) + 1) |->
                 AggregateBin(first + (k - 1) * w, InBin(first + (k - 1) * w))]

resample(df, interval) == ResampleBins(df, format_interval(interval))

\* --------------------------------------------------------------- Collector
date_format == <<"%Y", "%m", "%d">>

collect_interval == <<"1", "M">>

\* the interval list with 5M and 1H out of order
intervals_reordered == << <<"1", "M">>, <<"1", "H">>, <<"5", "M">>, <<"1", "D">> >>

intervals == << <<"1", "M">>, <<"5", "M">>, <<"1", "H">>, <<"1", "D">> >>

upload_path == "dinero-collector/yfinance"

TickerPool == <<"AMZN", "AAPL", "MSFT", "GOOG">>

DatePool == << [year |-> 2024, month |-> 1, day |-> 2],
               [year |-> 2024, month |-> 1, day |-> 3],
               [year |-> 2024, month |-> 12, day |-> 31],
               [year |-> 2025, month |-> 1, day |-> 1] >>

\* self.tickers, and the dates handed to collect_many
tickers == SubSeq(TickerPool, 1, NumTickers)

dates == SubSeq(DatePool, 1, NumDates)

\* one directive of a strftime format
Directive(date, d) ==
    CASE d = "%Y" -> Pad(date.year, 4)
      [] d = "%m" -> Pad(date.month, 2)
      [] d = "%d" -> Pad(date.day, 2)

\* date.strftime(fmt)
RECURSIVE strftime(_, _)
strftime(date, fmt) ==
    IF fmt = <<>> THEN <<>>
    ELSE Directive(date, Head(fmt)) \o strftime(date, Tail(fmt))

\* self.filename_format.format(date=...)
filename_format(datestr) == datestr \o <<".", "c", "s", "v">>

\* a path that names the interval before the ticker
save_path_swapped(date, ticker, interval) ==
    <<upload_path, interval, ticker, filename_format(strftime(date, date_format))>>

\* f'{self.upload_path}/{ticker}/{interval}/{filename}', by component
save_path(date, ticker, interval) ==
    <<upload_path, ticker, interval, filename_format(strftime(date, date_format))>>

\* an upload error that is caught, after which save cleans up and goes on
Swallowed(stage) == IF stage = "upload" THEN "remove" ELSE "aborted"

\* an exception leaves every frame of collect_many/collect/save: no handler
Raised(stage) == "aborted"

\* a temporary file made with delete=True: closing it removes it
DeleteOnExit(files, f) == [g \in DOMAIN files \ {f} |-> files[g]]

\* leaving the with block of save by an exception closes the file, and
\* delete=False keeps it
ExitWith(files, f) == files

\* a save that closes the file and forgets os.remove
KeepTemp(files, f) == files

\* temp.close(); os.remove(temp.name)
RemoveTemp(files, f) == [g \in DOMAIN files \ {f} |-> files[g]]

EmptyFiles == [f \in {} |-> "open"]

CollectInit ==
    /\ pc = "fetch"
    /\ di = 1
    /\ ti = 1
    /\ ii = 1
    /\ data = <<>>
    /\ dataStage = collect_interval
    /\ fetched = <<>>
    /\ stored = <<>>
    /\ calls = <<>>
    /\ fetches = <<>>
    /\ uploads = <<>>
    /\ temps = EmptyFiles
    /\ tempCount = 0
    /\ error = "none"

\* data = self.data_collector.collect(ticker, date)
Fetch ==
    /\ pc = "fetch"
    /\ \E s \in AllSeries :
        /\ data' = s
        /\ fetched' = s
    /\ dataStage' = collect_interval
    /\ stored' = <<>>
    /\ ii' = 1
    /\ fetches' = Append(fetches, [ticker |-> tickers[ti], date |-> dates[di],
                                   uploads |-> Len(uploads)])
    /\ pc' = "interval"
    /\ UNCHANGED <<di, ti, calls, uploads, temps, tempCount, error, pure>>

FetchFail ==
    /\ pc = "fetch"
    /\ error' = "fetch"
    /\ pc' = Raised("fetch")
    /\ UNCHANGED <<di, ti, ii, data, dataStage, fetched, stored, calls,
                   fetches, uploads, temps, tempCount, pure>>

\* if interval != self.collect_interval: false
KeepBase ==
    /\ pc = "interval"
    /\ intervals[ii] = collect_interval
    /\ pc' = "save"
    /\ UNCHANGED <<di, ti, ii, data, dataStage, fetched, stored, calls,
                   fetches, uploads, temps, tempCount, error, pure>>

\* data = self.resampler.resample(data, interval)
Resample ==
    /\ pc = "interval"
    /\ intervals[ii] # collect_interval
    /\ data' = resample(data, intervals[ii])
    /\ calls' = Append(calls, [from |-> dataStage, to |-> intervals[ii]])
    /\ dataStage' = intervals[ii]
    /\ pc' = "save"
    /\ UNCHANGED <<di, ti, ii, fetched, stored, fetches, uploads, temps,
                   tempCount, error, pure>>

ResampleFail ==
    /\ pc = "interval"
    /\ intervals[ii] # collect_interval
    /\ error' = "resample"
    /\ pc' = Raised("resample")
    /\ UNCHANGED <<di, ti, ii, data, dataStage, fetched, stored, calls,
                   fetches, uploads, temps, tempCount, pure>>

\* save_ticker_data up to save's tempfile.NamedTemporaryFile(delete=False)
CreateTemp ==
    /\ pc = "save"
    /\ stored' = Append(stored, data)
    /\ tempCount' = tempCount + 1
    /\ temps' = (tempCount + 1 :> "open") @@ temps
    /\ pc' = "to_csv"
    /\ UNCHANGED <<di, ti, ii, data, dataStage, fetched, calls, fetches,
                   uploads, error, pure>>

\* data.to_csv(temp.name, index=False)
ToCsv ==
    /\ pc = "to_csv"
    /\ temps' = [temps EXCEPT ![tempCount] = "written"]
    /\ pc' = "upload"
    /\ UNCHANGED <<di, ti, ii, data, dataStage, fetched, stored, calls,
                   fetches, uploads, tempCount, error, pure>>

ToCsvFail ==
    /\ pc = "to_csv"
    /\ error' = "to_csv"
    /\ temps' = ExitWith(temps, tempCount)
    /\ pc' = Raised("to_csv")
    /\ UNCHANGED <<di, ti, ii, data, dataStage, fetched, stored, calls,
                   fetches, uploads, tempCount, pure>>

\* self.data_uploader.upload(temp, path)
Upload ==
    /\ pc = "upload"
    /\ uploads' = Append(uploads, save_path(dates[di], tickers[ti], intervals[ii]))
    /\ temps' = [temps EXCEPT ![tempCount] = "uploaded"]
    /\ pc' = "remove"
    /\ UNCHANGED <<di, ti, ii, data, dataStage, fetched, stored, calls,
                   fetches, tempCount, error, pure>>

UploadFail ==
    /\ pc = "upload"
    /\ error' = "upload"
    /\ temps' = ExitWith(temps, tempCount)
    /\ pc' = Raised("upload")
    /\ UNCHANGED <<di, ti, ii, data, dataStage, fetched, stored, calls,
                   fetches, uploads, tempCount, pure>>

\* the next iteration of the three nested loops, or the end of the run
Advance ==
    IF ii < Len(intervals)
    THEN /\ ii' = ii + 1
         /\ pc' = "interval"
         /\ UNCHANGED <<di, ti>>
    ELSE IF ti < Len(tickers)
    THEN /\ ti' = ti + 1
         /\ pc' = "fetch"
         /\ UNCHANGED <<di, ii>>
    ELSE IF di < Len(dates)
    THEN /\ di' = di + 1
         /\ ti' = 1
         /\ pc' = "fetch"
         /\ UNCHANGED ii
    ELSE /\ pc' = "done"
         /\ UNCHANGED <<di, ti, ii>>

\* temp.close(); os.remove(temp.name); then the loops go on
Remove ==
    /\ pc = "remove"
    /\ temps' = RemoveTemp(temps, tempCount)
    /\ Advance
    /\ fetched' = IF ii < Len(intervals) THEN fetched ELSE <<>>
    /\ stored' = IF ii < Len(intervals) THEN stored ELSE <<>>
    /\ UNCHANGED <<data, dataStage, calls, fetches, uploads, tempCount,
                   error, pure>>

Init ==
    /\ CollectInit
    /\ pure = [op |-> "none"]

Next ==
    \/ Fetch
    \/ FetchFail
    \/ KeepBase
    \/ Resample
    \/ ResampleFail
    \/ CreateTemp
    \/ ToCsv
    \/ ToCsvFail
    \/ Upload
    \/ UploadFail
    \/ Remove

Spec == Init /\ [][Next]_vars

\* --------------------------------------------- the pure functions, applied
\* the target intervals collect hands to resample
Targets == { intervals[i] : i \in 2..Len(intervals) }

LabelChars == {"1", "5", "M", "H", "D", "T"}

Labels == UNION { [1..n -> LabelChars] : n \in 1..MaxLabelLen }

ResampleInit ==
    /\ CollectInit
    /\ \E s \in AllSeries, i \in Targets :
        pure = [op |-> "resample", df |-> s, interval |-> i,
                done |-> FALSE, out |-> <<>>]

ResampleCall ==
    /\ pure.op = "resample"
    /\ ~pure.done
    /\ pure' = [pure EXCEPT !.done = TRUE,
                            !.out = resample(pure.df, pure.interval)]
    /\ UNCHANGED collectVars

ResampleSpec == ResampleInit /\ [][ResampleCall]_vars

FormatInit ==
    /\ CollectInit
    /\ \E l \in Labels :
        pure = [op |-> "format_interval", interval |-> l,
                done |-> FALSE, out |-> <<>>]

FormatCall ==
    /\ pure.op = "format_interval"
    /\ ~pure.done
    /\ pure' = [pure EXCEPT !.done = TRUE,
                            !.out = format_interval(pure.interval)]
    /\ UNCHANGED collectVars

FormatSpec == FormatInit /\ [][FormatCall]_vars

\* ------------------------------------------------------------- properties
\* the stages in the order the claims name them, and the minutes of each
StageOrder == << <<"1", "M">>, <<"5", "M">>, <<"1", "H">>, <<"1", "D">> >>

StageMinutes(label) ==
    CASE label = <<"1", "M">> -> 1
      [] label = <<"5", "M">> -> 5
      [] label = <<"1", "H">> -> 60
      [] label = <<"1", "D">> -> 60 * 24

\* the rows of df whose datetime lies in the bucket [t, t + w)
Contributing(df, t, w) ==
    { i \in 1..Len(df) : t <= df[i].datetime /\ df[i].datetime < t + w }

Earliest(c) == CHOOSE i \in c : \A j \in c : i <= j

Latest(c) == CHOOSE i \in c : \A j \in c : j <= i

RECURSIVE Total(_, _, _)
Total(df, c, col) ==
    IF c = {} THEN 0
    ELSE LET i == CHOOSE x \in c : TRUE
         IN  df[i][col] + Total(df, c \ {i}, col)

Resampled == pure.op = "resample" /\ pure.done

\* sixty consecutive 1-minute bars from 09:30, prices in hundredths
SixtyBars ==
    [i \in 1..60 |->
        [datetime |-> 570 + (i - 1), open |-> 10000, high |-> 10100,
         low |-> 9900, close |-> 10050, volume |-> 1000, dividends |-> 0,
         stock_splits |-> 0]]

SixtyBarsTo5M ==
    LET out == resample(SixtyBars, <<"5", "M">>)
    IN  /\ Len(out) = 12
        /\ out[1].datetime = 570
        /\ out[1].open = 10000
        /\ out[1].close = 10050
        /\ out[1].high = 10100
        /\ out[1].low = 9900
        /\ out[1].volume = 5000

\* C1: every output bar of resample(S, I), I in {5M, 1H, 1D}, that has
\* contributing bars has the open of the first of them, the close of the
\* last, the maximum high, the minimum low, and the sums of volume,
\* dividends and stock_splits; sixty 1-minute bars from 09:30 give twelve
\* 5-minute bars, the first with open 100, close 100.5, high 101, low 99,
\* volume 5000.
C1_BarsAggregateContributors ==
    Resampled =>
        /\ \A k \in 1..Len(pure.out) :
            LET df == pure.df
                o  == pure.out[k]
                c  == Contributing(df, o.datetime, StageMinutes(pure.interval))
            IN  c # {} =>
                  /\ o.open = df[Earliest(c)].open
                  /\ o.close = df[Latest(c)].close
                  /\ \E i \in c : o.high = df[i].high
                  /\ \A i \in c : df[i].high <= o.high
                  /\ \E i \in c : o.low = df[i].low
                  /\ \A i \in c : o.low <= df[i].low
                  /\ o.volume = Total(df, c, "volume")
                  /\ o.dividends = Total(df, c, "dividends")
                  /\ o.stock_splits = Total(df, c, "stock_splits")
        /\ SixtyBarsTo5M

C1_Witness ==
    /\ Resampled
    /\ \E k \in 1..Len(pure.out) :
        LET df == pure.df
            c  == Contributing(df, pure.out[k].datetime, StageMinutes(pure.interval))
        IN  /\ Cardinality(c) >= 3
            /\ df[Earliest(c)].open # df[Latest(c)].open
            /\ df[Earliest(c)].close # df[Latest(c)].close
            /\ pure.out[k].dividends > 0

\* C2: every bar of the output of resample(S, I) has at least one
\* contributing input bar (a bucket with no input bar does not appear), and
\* an empty input gives an empty output.
C2_NoBarWithoutContributors ==
    Resampled =>
        /\ \A k \in 1..Len(pure.out) :
            Contributing(pure.df, pure.out[k].datetime,
                         StageMinutes(pure.interval)) # {}
        /\ (pure.df = <<>> => pure.out = <<>>)

\* C3: the buckets of resample(S, I) partition S: every input bar lies in
\* the bucket of exactly one output bar, and the volume summed over the
\* output equals the volume summed over the input.
C3_BucketsPartitionInput ==
    Resampled =>
        /\ \A i \in 1..Len(pure.df) :
            Cardinality({ k \in 1..Len(pure.out) :
                i \in Contributing(pure.df, pure.out[k].datetime,
                                   StageMinutes(pure.interval)) }) = 1
        /\ Total(pure.out, 1..Len(pure.out), "volume")
             = Total(pure.df, 1..Len(pure.df), "volume")

C3_Witness ==
    /\ Resampled
    /\ Len(pure.df) >= 3
    /\ Len(pure.out) >= 2
    /\ \E k \in 1..Len(pure.out) :
        Cardinality(Contributing(pure.df, pure.out[k].datetime,
                                 StageMinutes(pure.interval))) >= 2
    /\ Total(pure.df, 1..Len(pure.df), "volume") > 0

\* the uploads of a whole run: one per date, ticker and interval
TotalUploads == Len(dates) * Len(tickers) * Len(StageOrder)

\* the date, ticker and interval of the n-th upload of a run without failure
NthDate(n) == dates[((n - 1) \div (Len(tickers) * Len(StageOrder))) + 1]

NthTicker(n) == tickers[(((n - 1) \div Len(StageOrder)) % Len(tickers)) + 1]

NthStage(n) == StageOrder[((n - 1) % Len(StageOrder)) + 1]

\* path is {base_path}/{ticker}/{interval}/{date as YYYYMMDD}.csv
IsPathOf(path, date, ticker, stage) ==
    /\ Len(path) = 4
    /\ path[1] = upload_path
    /\ path[2] = ticker
    /\ path[3] = stage
    /\ Len(path[4]) = 12
    /\ SubSeq(path[4], 9, 12) = <<".", "c", "s", "v">>
    /\ \A j \in 1..8 : IsDigit(path[4][j])
    /\ Number(SubSeq(path[4], 1, 4)) = date.year
    /\ Number(SubSeq(path[4], 5, 6)) = date.month
    /\ Number(SubSeq(path[4], 7, 8)) = date.day

\* C4: for each ticker the stages are chained in the order 1M, 5M, 1H, 1D:
\* the 1M series is stored as fetched and never resampled, and every
\* resample call takes the immediately preceding stage's output to the next,
\* strictly coarser, interval.
C4_StagesChained ==
    /\ \A n \in 1..Len(calls) :
        LET j == ((n - 1) % (Len(StageOrder) - 1)) + 1
        IN  /\ calls[n].from = StageOrder[j]
            /\ calls[n].to = StageOrder[j + 1]
            /\ StageMinutes(calls[n].to) > StageMinutes(calls[n].from)
    /\ Len(stored) <= Len(StageOrder)
    /\ Len(stored) >= 1 => stored[1] = fetched
    /\ \A j \in 2..Len(stored) : stored[j] = resample(stored[j - 1], StageOrder[j])

C4_Witness ==
    /\ Len(stored) = 4
    /\ Len(fetched) >= 2
    /\ Len(stored[2]) >= 2
    /\ Len(calls) >= 6

\* C5: in a run without failure there is exactly one upload per ticker and
\* interval, to {base_path}/{ticker}/{interval}/{YYYYMMDD}.csv, in ticker
\* order then interval order; the four uploads of a ticker precede the next
\* fetch; and the run ends after the last upload.
UploadsSoFarInOrder ==
    /\ Len(uploads) <= TotalUploads
    /\ \A n \in 1..Len(uploads) :
        IsPathOf(uploads[n], NthDate(n), NthTicker(n), NthStage(n))
    /\ \A m \in 1..Len(fetches) :
        /\ fetches[m].uploads = Len(StageOrder) * (m - 1)
        /\ fetches[m].ticker = NthTicker(Len(StageOrder) * (m - 1) + 1)
        /\ fetches[m].date = NthDate(Len(StageOrder) * (m - 1) + 1)
    /\ pc = "done" => Len(uploads) = TotalUploads
    /\ Len(uploads) = TotalUploads => pc \in {"remove", "done"}

C5_UploadsInOrder ==
    /\ []UploadsSoFarInOrder
    /\ [][pc # "done"]_vars

C5_Witness ==
    /\ pc = "done"
    /\ error = "none"
    /\ Len(uploads) = TotalUploads
    /\ Len(fetches) = Len(dates) * Len(tickers)
    /\ Len(data) >= 1

\* C6: once a fetch, resample or upload error has occurred, no further
\* fetch, resample or upload is performed, and the completed uploads stay.
C6_ErrorAbortsRun ==
    [][error # "none" =>
          /\ uploads' = uploads
          /\ fetches' = fetches
          /\ calls' = calls
          /\ tempCount' = tempCount]_vars

C6_Witness ==
    /\ error = "upload"
    /\ Len(uploads) >= 1
    /\ ii < Len(intervals)
    /\ ti < Len(tickers)
    /\ di < Len(dates)

\* C7: at most one temporary file of save exists at any time, and each is
\* written, uploaded and removed before the next one is created.
C7_OneTempFile ==
    /\ [](Cardinality(DOMAIN temps) <= 1)
    /\ [][tempCount' # tempCount => (DOMAIN temps = {} /\ Len(uploads) = tempCount)]_vars

C7_Witness ==
    /\ tempCount >= 2
    /\ tempCount \in DOMAIN temps
    /\ temps[tempCount] = "written"

C10_TempKeptOnError ==
    /\ [](error \in {"to_csv", "upload"} =>
             (pc = "aborted" /\ DOMAIN temps = {tempCount}))
    /\ [][DOMAIN temps' # DOMAIN temps /\ DOMAIN temps' \subseteq DOMAIN temps =>
             (error = "none" /\ \A f \in DOMAIN temps \ DOMAIN temps' :
                   temps[f] = "uploaded")]_vars

C10_Witness ==
    /\ error = "upload"
    /\ pc = "aborted"
    /\ tempCount >= 2
    /\ tempCount \in DOMAIN temps

\* a minute label: a decimal N >= 1 followed by M
IsMinuteLabel(l) ==
    /\ Len(l) >= 2
    /\ l[Len(l)] = "M"
    /\ \A j \in 1..(Len(l) - 1) : IsDigit(l[j])
    /\ l[1] # "0"

\* C8: format_interval maps every minute label N M, N >= 1 of any number of
\* digits, to N T, and returns every other label unchanged.
C8_MinuteLabelsDisambiguated ==
    (pure.op = "format_interval" /\ pure.done) =>
        IF IsMinuteLabel(pure.interval)
        THEN pure.out = SubSeq(pure.interval, 1, Len(pure.interval) - 1) \o <<"T">>
        ELSE pure.out = pure.interval

====
